---- MODULE Spec2Model ----
(***************************************************************************)
(* Model of mne/io/cnt/_utils.py: the CNT header reader and the resolver   *)
(* of the event table position, _compute_robust_event_table_position.      *)
(*                                                                         *)
(* Python integers are unbounded and the values at stake (file offsets     *)
(* beyond 2^32, products up to 2^49) do not fit the 32-bit integers of     *)
(* TLC, so an integer v is carried as the pair <<hi, lo>> with             *)
(* v = hi * LIMB + lo and 0 <= lo < LIMB (hi is negative for v < 0).       *)
(* The pair is canonical: two integers are equal iff their pairs are.      *)
(***************************************************************************)
EXTENDS Integers, Sequences, FiniteSets, TLC

\* ------------------------------------------------------------ bounds
\* Largest number of 2^32 wraparounds the files of the model can hold.
MaxWraps == 2
\* Number of resolver calls made on one open file handle.
MaxCalls == 2
\* Largest number of whole records in an event buffer.
MaxRecords == 2
\* Number of event parsers obtained side by side.
MaxParsers == 2

\* ------------------------------------------------ unbounded integers
LIMB == 1024 * 1024

FromInt(i) == <<i \div LIMB, i % LIMB>>

BigZero == <<0, 0>>

BigAdd(a, b) ==
    LET s == a[2] + b[2]
    IN  <<a[1] + b[1] + (s \div LIMB), s % LIMB>>

BigNeg(a) == IF a[2] = 0 THEN <<-a[1], 0>> ELSE <<-a[1] - 1, LIMB - a[2]>>

BigSub(a, b) == BigAdd(a, BigNeg(b))

BigLeq(a, b) == a[1] < b[1] \/ (a[1] = b[1] /\ a[2] <= b[2])

BigLt(a, b) == a[1] < b[1] \/ (a[1] = b[1] /\ a[2] < b[2])

\* abs(x), line 137
BigAbs(a) == IF a[1] < 0 THEN BigNeg(a) ELSE a

\* m * a for a natural number m, by doubling
RECURSIVE BigMulNat(_, _)
BigMulNat(m, a) ==
    IF m = 0 THEN BigZero
    ELSE LET h == BigMulNat(m \div 2, a)
             d == BigAdd(h, h)
         IN  IF m % 2 = 1 THEN BigAdd(d, a) ELSE d

\* Mutant of UINT32_RANGE: the "+ 1" forgotten, the step is 2^32 - 1
UINT32_RANGE_NoPlusOne == <<4095, LIMB - 1>>

\* np.iinfo(np.uint32).max + 1 = 2^32 = 4096 * 2^20, line 152
UINT32_RANGE == <<4096, 0>>

\* ------------------------------------------------- program constants
SETUP_NCHANNELS_OFFSET == 370
SETUP_NSAMPLES_OFFSET == 864
SETUP_EVENTTABLEPOS_OFFSET == 886

\* ------------------------------------------------------- byte decoding
\* Mutant of DecodeI32: the field read big-endian ('>i4')
DecodeI32_BigEndian(buf) ==
    buf[4] + 256 * buf[3] + 65536 * buf[2]
    + 16777216 * (IF buf[1] >= 128 THEN buf[1] - 256 ELSE buf[1])

\* np.frombuffer(buf, dtype='<i4')[0]: little-endian two's complement
DecodeI32(buf) ==
    buf[1] + 256 * buf[2] + 65536 * buf[3]
    + 16777216 * (IF buf[4] >= 128 THEN buf[4] - 256 ELSE buf[4])

\* np.frombuffer(buf, dtype='<u2')[0]
DecodeU16(buf) == buf[1] + 256 * buf[2]

\* np.frombuffer(buf, dtype='<u4')[0], as an unbounded integer
DecodeU32(buf) ==
    <<16 * buf[4] + (buf[3] \div 16),
      65536 * (buf[3] % 16) + 256 * buf[2] + buf[1]>>

\* The exception np.frombuffer(buf, dtype)[0] raises on a short read: an empty
\* buffer gives an empty array, whose [0] is an IndexError; a buffer that is
\* not a whole number of items is a ValueError.
FrombufferError(buf) == IF Len(buf) = 0 THEN "IndexError" ELSE "ValueError"

\* ------------------------------------------ the resolver's pure parts
\* Mutant of calc_event_table_pos: the channel count left out of the payload
calc_event_table_pos_NoChannels(n_bytes, nch, ns) ==
    BigAdd(FromInt(900 + 75 * nch), BigMulNat(n_bytes, FromInt(ns)))

\* calc_event_table_pos, lines 135-136
calc_event_table_pos(n_bytes, nch, ns) ==
    BigAdd(FromInt(900 + 75 * nch), BigMulNat(n_bytes * nch, FromInt(ns)))

\* Mutant of Sol: the distance is the signed difference, abs() forgotten
Sol_NoAbs(event_table_pos, n_bytes, nch, ns) ==
    [event_table_pos |-> event_table_pos,
     n_bytes         |-> n_bytes,
     distance        |-> BigSub(calc_event_table_pos(n_bytes, nch, ns),
                                event_table_pos)]

\* One entry of sol_table: (event_table_pos, n_bytes, distance), lines 135-141
Sol(event_table_pos, n_bytes, nch, ns) ==
    [event_table_pos |-> event_table_pos,
     n_bytes         |-> n_bytes,
     distance        |-> BigAbs(BigSub(calc_event_table_pos(n_bytes, nch, ns),
                                       event_table_pos))]

\* Mutant of possible_event_table_pos: "<" for "<=", a candidate equal to the
\* file length is dropped
RECURSIVE possible_event_table_pos_Strict(_, _)
possible_event_table_pos_Strict(event_table_pos, file_size) ==
    IF BigLt(event_table_pos, file_size)
    THEN <<event_table_pos>>
         \o possible_event_table_pos_Strict(BigAdd(event_table_pos, UINT32_RANGE),
                                         file_size)
    ELSE <<>>

\* Mutant of possible_event_table_pos: the stored offset is yielded before the
\* file length is looked at
possible_event_table_pos_FirstUnchecked(event_table_pos, file_size) ==
    <<event_table_pos>>
    \o possible_event_table_pos_Strict(BigAdd(event_table_pos, UINT32_RANGE),
                                    BigAdd(file_size, FromInt(1)))

\* Mutant of possible_event_table_pos: "if" for "while" after the first
\* wraparound, so that at most two candidates are yielded
possible_event_table_pos_OneWrap(event_table_pos, file_size) ==
    IF BigLeq(event_table_pos, file_size)
    THEN <<event_table_pos>>
         \o (IF BigLeq(BigAdd(event_table_pos, UINT32_RANGE), file_size)
             THEN <<BigAdd(event_table_pos, UINT32_RANGE)>>
             ELSE <<>>)
    ELSE <<>>

\* The values possible_event_table_pos yields, in order: the while loop of
\* lines 150-152, from the value read at offset 886
RECURSIVE possible_event_table_pos(_, _)
possible_event_table_pos(event_table_pos, file_size) ==
    IF BigLeq(event_table_pos, file_size)
    THEN <<event_table_pos>>
         \o possible_event_table_pos(BigAdd(event_table_pos, UINT32_RANGE), file_size)
    ELSE <<>>

\* Mutant of InsertSol: "<" for "<=", so that equal distances come out in
\* reverse order (a sort that is not stable)
RECURSIVE InsertSol_Unstable(_, _)
InsertSol_Unstable(sorted, x) ==
    IF sorted = <<>> THEN <<x>>
    ELSE IF BigLt(Head(sorted).distance, x.distance)
         THEN <<Head(sorted)>> \o InsertSol_Unstable(Tail(sorted), x)
         ELSE <<x>> \o sorted

\* sorted(sol_table, key=lambda x: x[2]): a stable ascending sort, here by
\* insertion (an entry goes after the entries that are not larger)
RECURSIVE InsertSol(_, _)
InsertSol(sorted, x) ==
    IF sorted = <<>> THEN <<x>>
    ELSE IF BigLeq(Head(sorted).distance, x.distance)
         THEN <<Head(sorted)>> \o InsertSol(Tail(sorted), x)
         ELSE <<x>> \o sorted

RECURSIVE SortedByDistance(_)
SortedByDistance(table) ==
    IF table = <<>> THEN <<>>
    ELSE InsertSol(SortedByDistance(SubSeq(table, 1, Len(table) - 1)),
                   table[Len(table)])

\* The two nested loops of get_most_possible_sol, lines 133-141, at candidate i
\* and width j with sol_table built so far: the first pair of distance 0 is
\* returned at once; with both loops exhausted, line 142 takes the head of the
\* sorted table, an IndexError when the table is empty.
RECURSIVE SolLoop(_, _, _, _, _, _, _)
SolLoop(cands, i, j, possible_n_bytes, ns, nch, sol_table) ==
    IF i > Len(cands)
    THEN IF sol_table = <<>>
         THEN [raised |-> TRUE, sol |-> Sol(BigZero, 0, 0, 0)]
         ELSE [raised |-> FALSE, sol |-> SortedByDistance(sol_table)[1]]
    ELSE IF j > Len(possible_n_bytes)
    THEN SolLoop(cands, i + 1, 1, possible_n_bytes, ns, nch, sol_table)
    ELSE LET s == Sol(cands[i], possible_n_bytes[j], nch, ns)
         IN  IF s.distance = BigZero
             THEN [raised |-> FALSE, sol |-> s]
             ELSE SolLoop(cands, i, j + 1, possible_n_bytes, ns, nch,
                          Append(sol_table, s))

\* get_most_possible_sol, lines 120-142, given the value read at offset 886
\* and the file size found by possible_event_table_pos
get_most_possible_sol(declared, file_size, possible_n_bytes, ns, nch) ==
    SolLoop(possible_event_table_pos(declared, file_size), 1, 1,
            possible_n_bytes, ns, nch, <<>>)

\* The data formats the model passes: the three the code accepts and one more
DataFormats == {"auto", "int16", "int32", "float32"}

\* Mutant of PossibleNBytes: 'auto' tries width 4 before width 2
PossibleNBytes_Int32First(fmt) ==
    IF fmt = "auto" THEN <<4, 2>>
    ELSE IF fmt = "int16" THEN <<2>>
    ELSE IF fmt = "int32" THEN <<4>>
    ELSE <<>>

\* Mutant of PossibleNBytes: a valid hint does not narrow the widths
PossibleNBytes_HintIgnored(fmt) ==
    IF fmt \in {"auto", "int16", "int32"} THEN <<2, 4>> ELSE <<>>

\* possible_n_bytes, lines 162-167; <<>> stands for the else branch, line 169
PossibleNBytes(fmt) ==
    IF fmt = "auto" THEN <<2, 4>>
    ELSE IF fmt = "int16" THEN <<2>>
    ELSE IF fmt = "int32" THEN <<4>>
    ELSE <<>>

\* Mutant of ValidFormat: the else branch of line 168 is missing
ValidFormat_Any(fmt) == TRUE

\* The hints lines 162-167 accept
ValidFormat(fmt) == fmt \in {"auto", "int16", "int32"}

\* ---------------------------------------------------- the struct module
\* Bytes of one field of a '<' (little-endian, unpadded) format
FieldSize(c) ==
    IF c \in {"B", "c"} THEN 1
    ELSE IF c \in {"H", "h"} THEN 2
    ELSE 4

\* Struct(pattern).size
RECURSIVE calcsize(_)
calcsize(pattern) ==
    IF pattern = <<>> THEN 0
    ELSE FieldSize(Head(pattern)) + calcsize(Tail(pattern))

\* The two's complement value of the unsigned number u of the given bit width
Signed(u, bits) == IF u >= 2 ^ (bits - 1) THEN u - 2 ^ (bits - 1) - 2 ^ (bits - 1) ELSE u

\* The Python value one field unpacks to, as <<type, number>>: an int for
\* H, B, h and l; for c a bytes object of length 1 (its byte is the number);
\* for f a float, carried as the bit pattern of its four bytes.
UnpackField(c, b) ==
    IF c = "B" THEN <<"int", b[1]>>
    ELSE IF c = "c" THEN <<"bytes", b[1]>>
    ELSE IF c = "H" THEN <<"int", b[1] + 256 * b[2]>>
    ELSE IF c = "h" THEN <<"int", Signed(b[1] + 256 * b[2], 16)>>
    ELSE IF c = "l" THEN <<"int", DecodeI32(b)>>
    ELSE <<"float", DecodeI32(b)>>

\* Struct(pattern).unpack(b): the fields of pattern from the bytes of b, in order
RECURSIVE Unpack(_, _)
Unpack(pattern, b) ==
    IF pattern = <<>> THEN <<>>
    ELSE LET n == FieldSize(Head(pattern))
         IN  <<UnpackField(Head(pattern), SubSeq(b, 1, n))>>
             \o Unpack(Tail(pattern), SubSeq(b, n + 1, Len(b)))

\* Mutant of IterUnpackAccepts: a trailing partial record is dropped silently
IterUnpackAccepts_Truncating(buf, size) == TRUE

\* iter_unpack takes a buffer only if it is a whole number of records long
\* (struct.error otherwise)
IterUnpackAccepts(buf, size) == size > 0 /\ Len(buf) % size = 0

\* Mutant of Chunk: every record is unpacked from the head of the buffer
Chunk_FromStart(buf, pos, size) == SubSeq(buf, 1, size)

\* The chunk iter_unpack unpacks next, pos bytes into the buffer
Chunk(buf, pos, size) == SubSeq(buf, pos + 1, pos + size)

\* ------------------------------------------------------ the event parser
\* The fields of the namedtuples, lines 34-35, 45-47, 62-64
FieldNames(event_maker) ==
    IF event_maker = "CNTEventType1"
    THEN <<"StimType", "KeyBoard", "KeyPad_Accept", "Offset">>
    ELSE <<"StimType", "KeyBoard", "KeyPad_Accept", "Offset", "Type", "Code",
           "Latency", "EpochEvent", "Accept2", "Accuracy">>

\* Mutant of KnownEventType: type 0 falls through to a parser
KnownEventType_Lenient(event_type) == event_type \in 0..3

\* The event types the if chain of lines 68-76 knows
KnownEventType(event_type) == event_type \in {1, 2, 3}

\* event_maker, lines 69, 72, 75
EventMaker(event_type) ==
    IF event_type = 1 THEN "CNTEventType1"
    ELSE IF event_type = 2 THEN "CNTEventType2"
    ELSE IF event_type = 3 THEN "CNTEventType3"
    ELSE "unbound"

\* Mutant of StructPattern: type 3 unpacks Accuracy as an unsigned byte
StructPattern_Type3Unsigned(event_type) ==
    IF event_type = 1 THEN <<"H", "B", "c", "l">>
    ELSE IF event_type = 2
    THEN <<"H", "B", "c", "l", "h", "h", "f", "c", "c", "c">>
    ELSE IF event_type = 3
    THEN <<"H", "B", "c", "l", "h", "h", "f", "c", "c", "B">>
    ELSE <<>>

\* struct_pattern without its '<', lines 70, 73, 76
StructPattern(event_type) ==
    IF event_type = 1 THEN <<"H", "B", "c", "l">>
    ELSE IF event_type = 2
    THEN <<"H", "B", "c", "l", "h", "h", "f", "c", "c", "c">>
    ELSE IF event_type = 3
    THEN <<"H", "B", "c", "l", "h", "h", "f", "c", "c", "c">>
    ELSE <<>>

\* ------------------------------------------- the SSP rejection parameters
\* The channel types the rejection handling of lines 94-118 looks for, in the
\* order of its tests
RejectKeys == <<"grad", "mag", "eeg", "eog">>

\* dict(grad=2000e-13, mag=3000e-15, eeg=50e-6, eog=250e-6), the default of
\* reject in compute_proj_ecg, lines 159-160; a dict is a function from its
\* keys, a value is its literal
EcgRejectDefault ==
    [k \in {"grad", "mag", "eeg", "eog"} |->
        IF k = "grad" THEN "2000e-13"
        ELSE IF k = "mag" THEN "3000e-15"
        ELSE IF k = "eeg" THEN "50e-6"
        ELSE "250e-6"]

\* dict(grad=2000e-13, mag=3000e-15, eeg=500e-6, eog=np.inf), the default of
\* reject in compute_proj_eog, lines 270-271
EogRejectDefault ==
    [k \in {"grad", "mag", "eeg", "eog"} |->
        IF k = "grad" THEN "2000e-13"
        ELSE IF k = "mag" THEN "3000e-15"
        ELSE IF k = "eeg" THEN "500e-6"
        ELSE "np.inf"]

\* _safe_del_key(dict_, key), lines 19-26: the dict after the call
_safe_del_key(dict_, key) ==
    IF key \in DOMAIN dict_
    THEN [k \in (DOMAIN dict_) \ {key} |-> dict_[k]]
    ELSE dict_

\* The four tests of lines 95-106 (and 108-119) on one dict, from the i-th
\* on: the key of every channel type without a good channel is deleted
RECURSIVE DropAbsent(_, _, _)
DropAbsent(dict_, present, i) ==
    IF i > Len(RejectKeys) THEN dict_
    ELSE DropAbsent(IF RejectKeys[i] \in present
                    THEN dict_
                    ELSE _safe_del_key(dict_, RejectKeys[i]),
                    present, i + 1)

\* --------------------------------------------------------------- state
VARIABLES
    heap,             \* the dict objects: the two defaults and the caller's
    proj,             \* the last call of compute_proj_ecg / compute_proj_eog
    teeg_stored,      \* the TEEG descriptor of the file: where, and its 9 bytes
    teeg,             \* the last call of _read_teeg on the file handle
    buffer,           \* the bytes handed to the event parsers
    gen,              \* per parser: the closure of _get_event_parser and its generator
    fsize,            \* length of the file in bytes (unbounded integer)
    hdr,              \* bytes stored at offsets 864, 370 and 886 of a full header
    cursor,           \* fid.tell() (unbounded integer)
    pc,               \* position of the running call, "idle" between calls
    calls,            \* resolver calls made on the handle so far
    data_format,      \* argument of the running (or last) call
    fid_origin,       \* local, line 154
    n_samples,        \* local, line 157
    n_channels,       \* local, line 160
    possible_n_bytes, \* local, lines 162-167
    sol,              \* event_table_pos, n_bytes, distance, line 171
    outcome,          \* "none", "running", "returned" or "raised"
    exc,              \* exception of a raised call
    ret,              \* tuple of a returned call, line 176
    warnings,         \* warn() calls of the running (or last) call
    seeks             \* targets of the fid.seek calls of the running (or last) call

vars == <<fsize, hdr, cursor, pc, calls, data_format, fid_origin, n_samples,
          n_channels, possible_n_bytes, sol, outcome, exc, ret, warnings, seeks,
          teeg_stored, teeg, buffer, gen, heap, proj>>

\* The state of the file handle and of the resolver
resolver_vars ==
    <<fsize, hdr, cursor, pc, calls, data_format, fid_origin, n_samples,
      n_channels, possible_n_bytes, sol, outcome, exc, ret, warnings, seeks>>

\* The state of the event parsers
decoder_vars == <<buffer, gen>>

\* The TEEG descriptor and the calls of _read_teeg
teeg_vars == <<teeg_stored, teeg>>

\* The dict objects and the calls of the SSP functions
proj_vars == <<heap, proj>>

\* ------------------------------------------------------------ the file
\* The bytes of a full header at the three offsets the code reads
HeaderBytes(offset) ==
    IF offset = SETUP_NSAMPLES_OFFSET THEN hdr.n_samples
    ELSE IF offset = SETUP_NCHANNELS_OFFSET THEN hdr.n_channels
    ELSE hdr.event_table_pos

\* Mutant of FileRead: a read past the end of the file is not cut
FileRead_NoEof(offset, n) == HeaderBytes(offset)

\* fid.read(n) after fid.seek(offset): the n bytes at offset, cut at the end
\* of the file
FileRead(offset, n) ==
    IF BigLeq(FromInt(offset + n), fsize) THEN HeaderBytes(offset)
    ELSE IF BigLeq(fsize, FromInt(offset)) THEN <<>>
    ELSE SubSeq(HeaderBytes(offset), 1, fsize[2] - offset)

\* ----------------------------------------------- the files of the model
\* x mod 2^32
Mod32(x) == <<x[1] % 4096, x[2]>>

\* The four little-endian bytes of x mod 2^32
EncodeU32(x) ==
    LET m == Mod32(x)
    IN  <<m[2] % 256, (m[2] \div 256) % 256,
          (m[2] \div 65536) + 16 * (m[1] % 16), m[1] \div 16>>

EncodeU16(i) == <<i % 256, i \div 256>>

NChannelsSet == {0, 2, 32, 65535}

\* 536870917 = 2^29 + 5, 1073741824 = 2^30, 2147483647 = 2^31 - 1
NSamplesSet == {-1000, -1, 0, 1000, 536870917, 1073741824, 2147483647}

\* The offset at which the event table starts when the samples are w bytes
\* wide: 900 bytes of preamble, 75 bytes per channel, then the samples
AnalyticOffset(w, nch, ns) ==
    BigAdd(FromInt(900), BigAdd(FromInt(75 * nch), BigMulNat(w * nch, FromInt(ns))))

\* 2^31
Half32 == <<2048, 0>>

\* 2^32 = 4096 * 2^20
Pow32 == <<4096, 0>>

\* k * 2^32 + r
Wrapped(k, r) == BigAdd(BigMulNat(k, Pow32), FromInt(r))

\* Stored table positions: the analytic offset of either width (reduced), the
\* offset midway between the two, a near miss, the offset half a wraparound
\* away, and offsets unrelated to the header's counts
DeclaredSet(nch, ns) ==
    {Mod32(AnalyticOffset(w, nch, ns)) : w \in {2, 3, 4}}
    \cup {Mod32(BigAdd(AnalyticOffset(2, nch, ns), FromInt(10)))}
    \cup {Mod32(BigAdd(AnalyticOffset(2, nch, ns), Half32))}
    \cup {FromInt(67300), Wrapped(0, 2147483647)}

FullSizes(nch, ns) ==
    {FromInt(890), FromInt(67300)}
    \cup {Wrapped(k, r) : k \in 1..MaxWraps, r \in {1050, 67300}}
    \cup {c \in {AnalyticOffset(w, nch, ns) : w \in {2, 4}} :
            /\ BigLeq(FromInt(890), c)
            /\ BigLt(c, Wrapped(MaxWraps + 1, 0))}

\* Files cut inside the SETUP header
ShortSizes == {FromInt(0), FromInt(371), FromInt(866), FromInt(888)}

CursorSet == {FromInt(0), FromInt(1000)}

NoSol == [event_table_pos |-> BigZero, n_bytes |-> 0, distance |-> BigZero]

NoRet == [n_channels |-> 0, n_samples |-> 0, event_table_pos |-> BigZero,
          n_bytes |-> 0]

\* The header bytes of a file that stores nch, ns and d
Header(nch, ns, d) ==
    [n_samples       |-> EncodeU32(FromInt(ns)),
     n_channels      |-> EncodeU16(nch),
     event_table_pos |-> EncodeU32(d)]

\* No call of the resolver has been made on the file handle
ResolverIdle ==
    /\ pc = "idle"
    /\ calls = 0
    /\ data_format = "auto"
    /\ fid_origin = BigZero
    /\ n_samples = 0
    /\ n_channels = 0
    /\ possible_n_bytes = <<>>
    /\ sol = NoSol
    /\ outcome = "none"
    /\ exc = "none"
    /\ ret = NoRet
    /\ warnings = 0
    /\ seeks = <<>>

\* The parsers of the module, none obtained yet
Parsers == 1..MaxParsers

\* A parser slot before _get_event_parser is called for it
NoGen ==
    [state |-> "none", event_type |-> 0, event_maker |-> "unbound",
     struct_pattern |-> <<>>, pos |-> 0, yielded |-> <<>>, exc |-> "none"]

\* No event parser has been asked for
DecoderIdle ==
    /\ buffer = <<>>
    /\ gen = [s \in Parsers |-> NoGen]

\* The result slot of _read_teeg before any call
NoTeeg ==
    [outcome |-> "none", exc |-> "none", teeg_offset |-> BigZero,
     origin |-> BigZero, after |-> BigZero,
     value |-> [event_type |-> 0, total_length |-> 0, offset |-> 0]]

\* A file holding no TEEG descriptor, and no call of _read_teeg on it
TeegIdle ==
    /\ teeg_stored = [at |-> FromInt(900), bytes |-> <<0, 0, 0, 0, 0, 0, 0, 0, 0>>]
    /\ teeg = NoTeeg

\* A dict with no key; it stands for None where a dict is recorded
NoDict == [k \in {} |-> ""]

\* The result slot of the SSP functions before any call
NoProj ==
    [mode |-> "none", reject |-> "None", flat |-> "None", epochs |-> FALSE,
     reject_at_entry |-> NoDict, flat_at_entry |-> NoDict,
     epochs_reject |-> NoDict, epochs_flat |-> NoDict]

\* The dict objects after the import of the module: the defaults are built
\* once, when the def statements of lines 156 and 267 run
HeapAtImport(user_reject, user_flat) ==
    [o \in {"ecg_default", "eog_default", "user_reject", "user_flat"} |->
        IF o = "ecg_default" THEN EcgRejectDefault
        ELSE IF o = "eog_default" THEN EogRejectDefault
        ELSE IF o = "user_reject" THEN user_reject
        ELSE user_flat]

\* No SSP function has been called
ProjIdle ==
    /\ heap = HeapAtImport(NoDict, NoDict)
    /\ proj = NoProj

Init ==
    /\ \E nch \in NChannelsSet, ns \in NSamplesSet :
         \/ /\ \E d \in DeclaredSet(nch, ns) : hdr = Header(nch, ns, d)
            /\ fsize \in FullSizes(nch, ns)
         \/ /\ nch = 32 /\ ns = 1000
            /\ \E d \in DeclaredSet(nch, ns) \cup {BigZero} :
                 hdr = Header(nch, ns, d)
            /\ fsize \in ShortSizes
    /\ cursor \in CursorSet
    /\ ResolverIdle
    /\ TeegIdle
    /\ DecoderIdle
    /\ ProjIdle

\* ------------------------------------------------------------- actions
\* A raise leaves the function at once: nothing after it runs
Raise(e) ==
    /\ pc' = "idle"
    /\ outcome' = "raised"
    /\ exc' = e

\* _compute_robust_event_table_position(fid, fmt) is entered; line 154
Call(fmt) ==
    /\ pc = "idle"
    /\ calls < MaxCalls
    /\ calls' = calls + 1
    /\ data_format' = fmt
    /\ fid_origin' = cursor
    /\ pc' = "read_n_samples"
    /\ outcome' = "running"
    /\ exc' = "none"
    /\ ret' = NoRet
    /\ warnings' = 0
    /\ seeks' = <<>>
    /\ n_samples' = 0
    /\ n_channels' = 0
    /\ possible_n_bytes' = <<>>
    /\ sol' = NoSol
    /\ UNCHANGED <<fsize, hdr, cursor>>
    /\ UNCHANGED <<teeg_vars, decoder_vars, proj_vars>>

\* lines 156-157
ReadNSamples ==
    /\ pc = "read_n_samples"
    /\ LET buf == FileRead(SETUP_NSAMPLES_OFFSET, 4)
       IN  /\ seeks' = Append(seeks, FromInt(SETUP_NSAMPLES_OFFSET))
           /\ cursor' = FromInt(SETUP_NSAMPLES_OFFSET + Len(buf))
           /\ IF Len(buf) = 4
              THEN /\ n_samples' = DecodeI32(buf)
                   /\ pc' = "read_n_channels"
                   /\ UNCHANGED <<outcome, exc>>
              ELSE /\ Raise(FrombufferError(buf))
                   /\ UNCHANGED n_samples
    /\ UNCHANGED <<fsize, hdr, calls, data_format, fid_origin, n_channels,
                   possible_n_bytes, sol, ret, warnings>>
    /\ UNCHANGED <<teeg_vars, decoder_vars, proj_vars>>

\* lines 159-160
ReadNChannels ==
    /\ pc = "read_n_channels"
    /\ LET buf == FileRead(SETUP_NCHANNELS_OFFSET, 2)
       IN  /\ seeks' = Append(seeks, FromInt(SETUP_NCHANNELS_OFFSET))
           /\ cursor' = FromInt(SETUP_NCHANNELS_OFFSET + Len(buf))
           /\ IF Len(buf) = 2
              THEN /\ n_channels' = DecodeU16(buf)
                   /\ pc' = "select_n_bytes"
                   /\ UNCHANGED <<outcome, exc>>
              ELSE /\ Raise(FrombufferError(buf))
                   /\ UNCHANGED n_channels
    /\ UNCHANGED <<fsize, hdr, calls, data_format, fid_origin, n_samples,
                   possible_n_bytes, sol, ret, warnings>>
    /\ UNCHANGED <<teeg_vars, decoder_vars, proj_vars>>

\* lines 162-169
SelectNBytes ==
    /\ pc = "select_n_bytes"
    /\ IF ValidFormat(data_format)
       THEN /\ possible_n_bytes' = PossibleNBytes(data_format)
            /\ pc' = "search"
            /\ UNCHANGED <<outcome, exc>>
       ELSE /\ Raise("Exception")
            /\ UNCHANGED possible_n_bytes
    /\ UNCHANGED <<fsize, hdr, cursor, calls, data_format, fid_origin,
                   n_samples, n_channels, sol, ret, warnings, seeks>>
    /\ UNCHANGED <<teeg_vars, decoder_vars, proj_vars>>

\* lines 171-172: get_most_possible_sol, which drives possible_event_table_pos
\* (seek to 886, read, seek to the end, lines 146-148)
Search ==
    /\ pc = "search"
    /\ LET buf == FileRead(SETUP_EVENTTABLEPOS_OFFSET, 4)
       IN  IF Len(buf) = 4
           THEN LET r == get_most_possible_sol(DecodeU32(buf), fsize,
                                            possible_n_bytes, n_samples,
                                            n_channels)
                IN  /\ seeks' = seeks \o <<FromInt(SETUP_EVENTTABLEPOS_OFFSET),
                                           fsize>>
                    /\ cursor' = fsize
                    /\ IF r.raised
                       THEN /\ Raise("IndexError")
                            /\ UNCHANGED sol
                       ELSE /\ sol' = r.sol
                            /\ pc' = "finish"
                            /\ UNCHANGED <<outcome, exc>>
           ELSE /\ seeks' = Append(seeks, FromInt(SETUP_EVENTTABLEPOS_OFFSET))
                /\ cursor' = FromInt(SETUP_EVENTTABLEPOS_OFFSET + Len(buf))
                /\ Raise(FrombufferError(buf))
                /\ UNCHANGED sol
    /\ UNCHANGED <<fsize, hdr, calls, data_format, fid_origin, n_samples,
                   n_channels, possible_n_bytes, ret, warnings>>
    /\ UNCHANGED <<teeg_vars, decoder_vars, proj_vars>>

\* Mutant of WarnNeeded: the warning is remembered and given once per handle
WarnNeeded_OncePerHandle(distance) == distance # BigZero /\ calls = 1

\* Mutant of WarnNeeded: a near miss is let through without the warning
WarnNeeded_Tolerant(distance) == BigLt(FromInt(16), distance)

\* The test of line 173
WarnNeeded(distance) == distance # BigZero

\* Mutant of Finish: the tuple is returned without the seek of line 175
Finish_NoRestore ==
    /\ pc = "finish"
    /\ warnings' = IF WarnNeeded(sol.distance) THEN warnings + 1 ELSE warnings
    /\ ret' = [n_channels |-> n_channels, n_samples |-> n_samples,
               event_table_pos |-> sol.event_table_pos,
               n_bytes |-> sol.n_bytes]
    /\ outcome' = "returned"
    /\ pc' = "idle"
    /\ UNCHANGED <<fsize, hdr, calls, data_format, fid_origin, n_samples,
                   n_channels, possible_n_bytes, sol, exc, cursor, seeks>>
    /\ UNCHANGED <<teeg_vars, decoder_vars, proj_vars>>

\* lines 173-176
Finish ==
    /\ pc = "finish"
    /\ warnings' = IF WarnNeeded(sol.distance) THEN warnings + 1 ELSE warnings
    /\ seeks' = Append(seeks, fid_origin)
    /\ cursor' = fid_origin
    /\ ret' = [n_channels |-> n_channels, n_samples |-> n_samples,
               event_table_pos |-> sol.event_table_pos,
               n_bytes |-> sol.n_bytes]
    /\ outcome' = "returned"
    /\ pc' = "idle"
    /\ UNCHANGED <<fsize, hdr, calls, data_format, fid_origin, n_samples,
                   n_channels, possible_n_bytes, sol, exc>>
    /\ UNCHANGED <<teeg_vars, decoder_vars, proj_vars>>

Next ==
    \/ \E fmt \in DataFormats : Call(fmt)
    \/ ReadNSamples
    \/ ReadNChannels
    \/ SelectNBytes
    \/ Search
    \/ Finish

Spec == Init /\ [][Next]_vars

\* ------------------------------------------------- the event decoder
\* The bytes of an event buffer of the given length
EventBytes(seed, len) == [i \in 1..len |-> (seed + 37 * i) % 256]

\* Lengths of event buffers: whole records of either layout, and lengths
\* that leave a partial record after zero, one or two whole ones
BufferLengths ==
    {8 * k : k \in 0..MaxRecords} \cup {19 * k : k \in 0..MaxRecords}
        \cup {3, 20}

BufferSet == {EventBytes(seed, len) : seed \in {0, 101}, len \in BufferLengths}

\* The values event_type is called with
EventTypes == 0..4

DecoderInit ==
    /\ fsize = FromInt(890)
    /\ hdr = Header(0, 0, FromInt(900))
    /\ cursor = BigZero
    /\ ResolverIdle
    /\ TeegIdle
    /\ buffer \in BufferSet
    /\ gen = [s \in Parsers |-> NoGen]
    /\ ProjIdle

\* parser = _get_event_parser(event_type), lines 67-85
GetEventParser(s, event_type) ==
    /\ gen[s].state = "none"
    /\ IF KnownEventType(event_type)
       THEN gen' = [gen EXCEPT ![s] =
                       [@ EXCEPT !.state = "parser",
                                 !.event_type = event_type,
                                 !.event_maker = EventMaker(event_type),
                                 !.struct_pattern = StructPattern(event_type)]]
       ELSE gen' = [gen EXCEPT ![s] =
                       [@ EXCEPT !.state = "rejected",
                                 !.event_type = event_type,
                                 !.exc = "ValueError"]]
    /\ UNCHANGED buffer
    /\ UNCHANGED <<resolver_vars, teeg_vars, proj_vars>>

\* Mutant of CallParser: parser is an ordinary function that unpacks at the
\* call, so a bad buffer fails there
CallParser_Eager(s) ==
    /\ gen[s].state = "parser"
    /\ IF IterUnpackAccepts(buffer, calcsize(gen[s].struct_pattern))
       THEN gen' = [gen EXCEPT ![s].state = "created"]
       ELSE gen' = [gen EXCEPT ![s] = [@ EXCEPT !.state = "failed",
                                                !.exc = "struct.error"]]
    /\ UNCHANGED buffer
    /\ UNCHANGED <<resolver_vars, teeg_vars, proj_vars>>

\* events = parser(buffer): a generator function, so the call runs none of
\* lines 81-83
CallParser(s) ==
    /\ gen[s].state = "parser"
    /\ gen' = [gen EXCEPT ![s].state = "created"]
    /\ UNCHANGED buffer
    /\ UNCHANGED <<resolver_vars, teeg_vars, proj_vars>>

\* next(events): lines 81-82 on the first call, then one turn of the loop
\* of lines 82-83 up to the yield
NextRecord(s) ==
    /\ gen[s].state \in {"created", "suspended"}
    /\ LET g == gen[s]
           size == calcsize(g.struct_pattern)
           chunk == Unpack(g.struct_pattern, Chunk(buffer, g.pos, size))
       IN  IF g.state = "created" /\ ~IterUnpackAccepts(buffer, size)
           THEN gen' = [gen EXCEPT ![s] = [@ EXCEPT !.state = "failed",
                                                    !.exc = "struct.error"]]
           ELSE IF g.pos + size > Len(buffer)
           THEN gen' = [gen EXCEPT ![s].state = "exhausted"]
           ELSE IF Len(chunk) # Len(FieldNames(g.event_maker))
           THEN gen' = [gen EXCEPT ![s] = [@ EXCEPT !.state = "failed",
                                                    !.exc = "TypeError"]]
           ELSE gen' = [gen EXCEPT ![s] =
                           [@ EXCEPT !.state = "suspended",
                                     !.pos = g.pos + size,
                                     !.yielded =
                                         Append(g.yielded,
                                                [maker |-> g.event_maker,
                                                 values |-> chunk])]]
    /\ UNCHANGED buffer
    /\ UNCHANGED <<resolver_vars, teeg_vars, proj_vars>>

DecoderNext ==
    \/ \E s \in Parsers, event_type \in EventTypes :
         GetEventParser(s, event_type)
    \/ \E s \in Parsers : CallParser(s)
    \/ \E s \in Parsers : NextRecord(s)

DecoderSpec == DecoderInit /\ [][DecoderNext]_vars

\* ------------------------------------------------- reading the claims
\* The header's fields as the file stores them
HdrNSamples == DecodeI32(hdr.n_samples)
HdrNChannels == DecodeU16(hdr.n_channels)
HdrDeclared == DecodeU32(hdr.event_table_pos)

\* The file holds all of the three header fields
HeaderComplete == BigLeq(FromInt(890), fsize)

\* A call has ended, one way or the other
Completed == pc = "idle" /\ outcome \in {"returned", "raised"}
Returned == pc = "idle" /\ outcome = "returned"

\* The analytic offset of width w for this file's header
Analytic(w) == AnalyticOffset(w, HdrNChannels, HdrNSamples)

\* |expected - candidate| of the pair a call returned
ReturnedDistance == BigAbs(BigSub(Analytic(ret.n_bytes), ret.event_table_pos))

\* The call was allowed to try width w
HintAllows(w) ==
    \/ data_format = "auto"
    \/ data_format = "int16" /\ w = 2
    \/ data_format = "int32" /\ w = 4

\* The precondition of C1: the stored offset is the analytic offset of width w
\* reduced modulo 2^32, and the file is at least as long as that offset
C1_Pre(w) ==
    /\ Completed
    /\ HeaderComplete
    /\ HintAllows(w)
    /\ HdrDeclared = Mod32(Analytic(w))
    /\ BigLeq(Analytic(w), fsize)

\* C1 as stated: under C1_Pre(w) the call returns the analytic offset and the
\* width w, with distance 0 and no warning. It fails for a negative analytic
\* offset and when both widths fit the stored offset.
C1_Original ==
    \A w \in {2, 4} :
        C1_Pre(w) =>
            /\ outcome = "returned"
            /\ ret.event_table_pos = Analytic(w)
            /\ ret.n_bytes = w
            /\ ReturnedDistance = BigZero
            /\ warnings = 0

\* C1 (amended): when the analytic offset of width w is not negative, the
\* stored offset is that offset modulo 2^32 and the file is at least that long,
\* the call ('auto' or the hint naming w) returns with distance 0 and without a
\* warning; it returns that offset and w, except under 'auto' with w = 4 when
\* the analytic offset of width 2 is congruent to the stored offset as well:
\* then the first exact match, the width-2 offset with n_bytes = 2, is returned.
C1_ExactMatchReturned ==
    \A w \in {2, 4} :
        (C1_Pre(w) /\ BigLeq(BigZero, Analytic(w))) =>
            /\ outcome = "returned"
            /\ ReturnedDistance = BigZero
            /\ warnings = 0
            /\ IF data_format = "auto" /\ w = 4 /\ Mod32(Analytic(2)) = HdrDeclared
               THEN ret.event_table_pos = Analytic(2) /\ ret.n_bytes = 2
               ELSE ret.event_table_pos = Analytic(w) /\ ret.n_bytes = w

\* A call under 'auto' returned the width-4 analytic offset, beyond 2^32
C1_Witness ==
    /\ C1_Pre(4)
    /\ data_format = "auto"
    /\ Returned
    /\ ret.n_bytes = 4
    /\ ret.event_table_pos = Analytic(4)
    /\ BigLeq(Pow32, ret.event_table_pos)

\* C2: when the analytic offset of a width the call tries is the stored offset
\* plus exactly 2^32 and does not exceed the file length, the call returns that
\* offset (stored + 2^32), not the stored value.
C2_OneWrapRecovered ==
    \A w \in {2, 4} :
        ( /\ Completed
          /\ HeaderComplete
          /\ HintAllows(w)
          /\ Analytic(w) = BigAdd(HdrDeclared, Pow32)
          /\ BigLeq(Analytic(w), fsize) ) =>
            /\ outcome = "returned"
            /\ ret.event_table_pos = BigAdd(HdrDeclared, Pow32)
            /\ ret.event_table_pos # HdrDeclared

\* A call returned the stored offset plus 2^32 for a header wrapped once
C2_Witness ==
    /\ Returned
    /\ HintAllows(4)
    /\ Analytic(4) = BigAdd(HdrDeclared, Pow32)
    /\ ret.event_table_pos = BigAdd(HdrDeclared, Pow32)
    /\ ret.n_bytes = 4

\* The example of the spec: 32 channels, 1000 samples, 67300 stored, a file of
\* at least 67300 + 2^32 bytes, 'auto'
C3_Scenario ==
    /\ Completed
    /\ HdrNChannels = 32
    /\ HdrNSamples = 1000
    /\ HdrDeclared = FromInt(67300)
    /\ BigLeq(BigAdd(FromInt(67300), Pow32), fsize)
    /\ data_format = "auto"

\* C3 as stated: in the scenario the call returns 67300 + 4294967296
C3_Original ==
    C3_Scenario =>
        /\ outcome = "returned"
        /\ ret.event_table_pos = BigAdd(FromInt(67300), Pow32)

\* C3 (amended): in the scenario the call returns event_table_pos = 67300 with
\* n_bytes = 2 and no warning: the stored offset matches the width-2 analytic
\* offset exactly at wraparound count 0, which ends the search.
C3_ScenarioReturnsStored ==
    C3_Scenario =>
        /\ outcome = "returned"
        /\ ret.event_table_pos = FromInt(67300)
        /\ ret.n_bytes = 2
        /\ ret.n_channels = 32
        /\ ret.n_samples = 1000
        /\ warnings = 0

\* The scenario's call has returned
C3_Witness == C3_Scenario /\ Returned /\ ret.event_table_pos = FromInt(67300)

\* C4: every returned event_table_pos is a non-negative integer not above the
\* file length and is the stored offset plus k * 2^32 for some k >= 0, for
\* every hint and with or without the warning.
C4_ResultInvariant ==
    Returned =>
        /\ BigLeq(BigZero, ret.event_table_pos)
        /\ BigLeq(ret.event_table_pos, fsize)
        /\ Mod32(ret.event_table_pos) = HdrDeclared
        /\ BigLeq(HdrDeclared, ret.event_table_pos)

\* A warned call returned an offset beyond 2^32
C4_Witness ==
    /\ Returned
    /\ warnings > 0
    /\ BigLeq(Pow32, ret.event_table_pos)
    /\ ret.event_table_pos # fsize

\* The hint is one the code accepts
HintValid == data_format \in {"auto", "int16", "int32"}

\* The k-th candidate offset: the stored offset after k wraparounds
Candidate(k) == BigAdd(HdrDeclared, BigMulNat(k, Pow32))

\* The (wraparound count, width) pairs a call on this file enumerates
Pairs ==
    {p \in (0..(fsize[1] \div 4096)) \X {2, 4} :
        BigLeq(Candidate(p[1]), fsize) /\ HintAllows(p[2])}

PairDistance(p) == BigAbs(BigSub(Analytic(p[2]), Candidate(p[1])))

NoExactPair == \A p \in Pairs : PairDistance(p) # BigZero

\* p comes before q in the enumeration: wraparound count, then width
Before(p, q) == p[1] < q[1] \/ (p[1] = q[1] /\ p[2] < q[2])

\* p has the least distance, and among the pairs of that distance the
\* smallest wraparound count, then the smallest width
BestPair(p) ==
    \A q \in Pairs :
        \/ BigLt(PairDistance(p), PairDistance(q))
        \/ PairDistance(p) = PairDistance(q) /\ (p = q \/ Before(p, q))

\* C5: when pairs are enumerated and none has distance 0, the call returns a
\* pair of minimum distance over all enumerated pairs, among those of minimum
\* distance the one of smallest wraparound count, and then of smallest width.
C5_MinimumDistanceSelected ==
    (Completed /\ HeaderComplete /\ HintValid /\ Pairs # {} /\ NoExactPair) =>
        /\ outcome = "returned"
        /\ \E p \in Pairs :
             /\ BestPair(p)
             /\ ret.event_table_pos = Candidate(p[1])
             /\ ret.n_bytes = p[2]

\* A call returned from a table without exact match in which two wraparound
\* counts tie at the minimum distance
C5_Witness ==
    /\ Returned
    /\ NoExactPair
    /\ \E p \in Pairs, q \in Pairs :
         /\ p[1] < q[1]
         /\ BestPair(p)
         /\ PairDistance(q) = PairDistance(p)
         /\ ret.event_table_pos = Candidate(p[1])

\* The widths of the hint in the order the code tries them
HintWidths ==
    IF data_format = "auto" THEN <<2, 4>>
    ELSE IF data_format = "int16" THEN <<2>>
    ELSE <<4>>

\* The table of a search that never returns early: every candidate not above
\* the file length, in increasing order, with every width of the hint
RECURSIVE FullTable(_)
FullTable(k) ==
    IF BigLeq(Candidate(k), fsize)
    THEN [i \in 1..Len(HintWidths) |-> <<k, HintWidths[i]>>] \o FullTable(k + 1)
    ELSE <<>>

\* The index of the first entry of table t that attains the minimum distance
FirstMinimum(t) ==
    CHOOSE i \in 1..Len(t) :
        /\ \A j \in 1..Len(t) : BigLeq(PairDistance(t[i]), PairDistance(t[j]))
        /\ \A j \in 1..(i - 1) : PairDistance(t[j]) # PairDistance(t[i])

\* C6: returning at the first pair of distance 0 does not change the answer:
\* the call returns the first pair, in enumeration order, that attains the
\* minimum distance over the full table (and fails iff that table is empty).
C6_ShortCircuitIsFullSearch ==
    (Completed /\ HeaderComplete /\ HintValid) =>
        LET t == FullTable(0)
        IN  IF t = <<>>
            THEN outcome = "raised"
            ELSE /\ outcome = "returned"
                 /\ ret.event_table_pos = Candidate(t[FirstMinimum(t)][1])
                 /\ ret.n_bytes = t[FirstMinimum(t)][2]

\* A call returned on an exact match with entries of the full table left
\* unvisited behind it
C6_Witness ==
    /\ Returned
    /\ ReturnedDistance = BigZero
    /\ LET t == FullTable(0)
       IN  Len(t) >= 4 /\ FirstMinimum(t) <= 2

\* C7: with 'int16' every returned n_bytes is 2 and with 'int32' it is 4,
\* whatever the other width would have scored; with 'auto' it is 2 or 4.
C7_HintRestrictsWidth ==
    Returned =>
        /\ data_format = "int16" => ret.n_bytes = 2
        /\ data_format = "int32" => ret.n_bytes = 4
        /\ data_format = "auto" => ret.n_bytes \in {2, 4}

\* An 'int16' call returned width 2 with a warning on a file whose width-4
\* analytic offset is one of the candidates (distance 0)
C7_Witness ==
    /\ Returned
    /\ data_format = "int16"
    /\ ret.n_bytes = 2
    /\ ReturnedDistance # BigZero
    /\ \E k \in 0..(fsize[1] \div 4096) :
         Candidate(k) = Analytic(4) /\ BigLeq(Candidate(k), fsize)

\* C8: a call with a hint other than 'auto', 'int16', 'int32' fails: it never
\* returns a tuple, never searches the candidates (no seek to offset 886, no
\* selected pair) and never warns.
C8_InvalidHintFails ==
    (outcome # "none" /\ ~HintValid) =>
        /\ outcome # "returned"
        /\ Completed => outcome = "raised"
        /\ ret = NoRet
        /\ sol = NoSol
        /\ warnings = 0
        /\ pc \notin {"search", "finish"}
        /\ \A i \in 1..Len(seeks) : seeks[i] # FromInt(886)

\* A call with the hint 'float32' failed on a file whose header holds an
\* exactly matching offset
C8_Witness ==
    /\ Completed
    /\ data_format = "float32"
    /\ outcome = "raised"
    /\ exc = "Exception"
    /\ HdrDeclared = Analytic(2)
    /\ BigLeq(Analytic(2), fsize)

\* C9: the warning is emitted at most once per call; a call returns with the
\* warning exactly when the pair it returns has nonzero distance, which is
\* exactly when no enumerated pair has distance 0; a call that enumerates a
\* pair returns even when none matches; a failed call has not warned.
C9_WarningIffNoExactMatch ==
    /\ warnings \in {0, 1}
    /\ outcome = "raised" => warnings = 0
    /\ Returned =>
         /\ warnings = 1 <=> ReturnedDistance # BigZero
         /\ warnings = 1 <=> NoExactPair
    /\ (Completed /\ HeaderComplete /\ HintValid /\ Pairs # {}) => Returned

\* A call returned a tuple together with the warning
C9_Witness ==
    /\ Returned
    /\ warnings = 1
    /\ NoExactPair
    /\ ret.n_bytes = 4
    /\ ret.n_channels = HdrNChannels
    /\ ret.n_samples = HdrNSamples

\* C10: after a call has ended, by a return or by an exception, the cursor is
\* where it was when the call began. The code restores the cursor on the
\* returning path only (line 175).
C10_CursorRestored == Completed => cursor = fid_origin

\* C11: no field of a returned tuple is negative: n_channels >= 0,
\* n_samples >= 0, event_table_pos >= 0 and n_bytes > 0. The code returns
\* n_samples as decoded from the signed field at 864, negative values included.
C11_NoNegativeField ==
    Returned =>
        /\ ret.n_channels >= 0
        /\ ret.n_samples >= 0
        /\ BigLeq(BigZero, ret.event_table_pos)
        /\ ret.n_bytes > 0

\* The unsigned little-endian value of four bytes: sum of b[i] * 256^(i-1)
LittleEndian32(b) ==
    BigAdd(FromInt(b[1] + 256 * b[2] + 65536 * b[3]),
           BigMulNat(b[4], FromInt(16777216)))

\* The same four bytes read as a two's complement number
SignedLittleEndian32(b) ==
    IF BigLeq(Half32, LittleEndian32(b))
    THEN BigSub(LittleEndian32(b), Pow32)
    ELSE LittleEndian32(b)

\* C16: a returned n_channels is the unsigned little-endian value of the two
\* bytes at 370, a returned n_samples the signed little-endian value of the
\* four bytes at 864, whatever the hint, the cursor on entry and the pair
\* selected; the call reads at 864, 370 and 886 in that order, and the
\* candidates start from the unsigned little-endian value of the four bytes at
\* 886: the returned offset is that value plus k * 2^32, and that value itself
\* when the file holds no second candidate.
C16_HeaderFieldsDecoded ==
    Returned =>
        /\ ret.n_channels = hdr.n_channels[1] + 256 * hdr.n_channels[2]
        /\ FromInt(ret.n_samples) = SignedLittleEndian32(hdr.n_samples)
        /\ SubSeq(seeks, 1, 3) = <<FromInt(864), FromInt(370), FromInt(886)>>
        /\ \E k \in 0..(fsize[1] \div 4096) :
             ret.event_table_pos
                = BigAdd(LittleEndian32(hdr.event_table_pos), BigMulNat(k, Pow32))
        /\ BigLt(fsize, BigAdd(LittleEndian32(hdr.event_table_pos), Pow32))
             => ret.event_table_pos = LittleEndian32(hdr.event_table_pos)

\* A call returned a negative n_samples and an n_channels that needs both bytes
C16_Witness ==
    /\ Returned
    /\ ret.n_samples = -1000
    /\ ret.n_channels = 65535
    /\ fid_origin # BigZero
    /\ data_format = "int32"

\* C19: on a file too short to hold the three header fields (fewer than 890
\* bytes) a call never returns a tuple: it ends with an exception.
C19_ShortHeaderFails ==
    ~HeaderComplete =>
        /\ outcome # "returned"
        /\ ret = NoRet
        /\ Completed => outcome = "raised" /\ exc # "none"

\* A call with a valid hint failed on the partial field at 886 of a file of
\* 888 bytes
C19_Witness ==
    /\ Completed
    /\ fsize = FromInt(888)
    /\ HintValid
    /\ outcome = "raised"
    /\ exc = "ValueError"
    /\ cursor = FromInt(888)

\* C20: on a file of fewer than 2^31 bytes a call returns as event_table_pos
\* exactly the value stored at offset 886, for every header and every hint the
\* code accepts. The code returns nothing when the stored value is above the
\* file length: no candidate is enumerated and line 142 raises.
C20_SmallFileReturnsStored ==
    (Completed /\ HeaderComplete /\ HintValid /\ BigLt(fsize, Half32)) =>
        /\ outcome = "returned"
        /\ ret.event_table_pos = HdrDeclared

\* ------------------------------------------------------ the TEEG reader
\* The byte of the file at position p of its data area (p >= 890): a byte of
\* the TEEG descriptor, or zero
ByteAt(p) ==
    LET d == BigSub(p, teeg_stored.at)
    IN  IF d[1] = 0 /\ d[2] < 9 THEN teeg_stored.bytes[d[2] + 1] ELSE 0

\* Mutant of DataRead: the seek of line 30 is left out, the read starts at
\* the cursor
DataRead_FromCursor(offset, n) ==
    LET left == BigSub(fsize, cursor)
        m == IF BigLeq(left, BigZero) THEN 0
             ELSE IF BigLeq(FromInt(n), left) THEN n
             ELSE left[2]
    IN  [i \in 1..m |-> ByteAt(BigAdd(cursor, FromInt(i - 1)))]

\* f.read(n) after f.seek(offset) in the data area: the bytes up to the end
\* of the file, n at most
DataRead(offset, n) ==
    LET left == BigSub(fsize, offset)
        m == IF BigLeq(left, BigZero) THEN 0
             ELSE IF BigLeq(FromInt(n), left) THEN n
             ELSE left[2]
    IN  [i \in 1..m |-> ByteAt(BigAdd(offset, FromInt(i - 1)))]

\* teeg_parser = Struct('<Bll'), line 28
teeg_parser == <<"B", "l", "l">>

\* Teeg(*fields), lines 27 and 31
Teeg(fields) ==
    [event_type |-> fields[1][2], total_length |-> fields[2][2],
     offset |-> fields[3][2]]

\* The offsets _read_teeg is called with: the descriptor, inside it, the
\* table the resolver found, the end of the file, and a negative offset
TeegOffsets ==
    {teeg_stored.at, BigAdd(teeg_stored.at, FromInt(4)), fsize,
     BigNeg(FromInt(1))}
        \cup (IF outcome = "returned" /\ BigLeq(FromInt(890), ret.event_table_pos)
              THEN {ret.event_table_pos} ELSE {})

\* _read_teeg(f, teeg_offset), lines 15-31: seek (ValueError on a negative
\* offset, the cursor not moved), read, unpack (struct.error on a short read)
ReadTeeg(teeg_offset) ==
    /\ pc = "idle"
    /\ IF BigLt(teeg_offset, BigZero)
       THEN /\ teeg' = [NoTeeg EXCEPT !.outcome = "raised",
                                      !.exc = "ValueError",
                                      !.teeg_offset = teeg_offset,
                                      !.origin = cursor,
                                      !.after = cursor]
            /\ UNCHANGED cursor
       ELSE LET buf == DataRead(teeg_offset, calcsize(teeg_parser))
                end == BigAdd(teeg_offset, FromInt(Len(buf)))
            IN  /\ cursor' = end
                /\ IF Len(buf) = calcsize(teeg_parser)
                   THEN teeg' = [NoTeeg EXCEPT
                                    !.outcome = "returned",
                                    !.teeg_offset = teeg_offset,
                                    !.origin = cursor,
                                    !.after = end,
                                    !.value = Teeg(Unpack(teeg_parser, buf))]
                   ELSE teeg' = [NoTeeg EXCEPT !.outcome = "raised",
                                               !.exc = "struct.error",
                                               !.teeg_offset = teeg_offset,
                                               !.origin = cursor,
                                               !.after = end]
    /\ UNCHANGED <<fsize, hdr, pc, calls, data_format, fid_origin, n_samples,
                   n_channels, possible_n_bytes, sol, outcome, exc, ret,
                   warnings, seeks>>
    /\ UNCHANGED <<teeg_stored, decoder_vars, proj_vars>>

\* The 9 bytes of the descriptors of the model's files
TeegBytesSet ==
    {<<1, 16, 0, 0, 0, 0, 0, 0, 0>>,
     <<200, 255, 255, 255, 255, 3, 2, 1, 128>>}

\* Files of 2 channels and 1000 samples, under and over 4 GiB, with the
\* descriptor at the table of either width or cut by the end of the file
TeegInit ==
    /\ fsize \in {FromInt(9100), Wrapped(1, 67300)}
    /\ \E d \in {FromInt(5050), FromInt(9050), FromInt(67300)} :
         hdr = Header(2, 1000, d)
    /\ \E at \in {FromInt(5050), FromInt(9050), BigSub(fsize, FromInt(4))},
          b \in TeegBytesSet :
         teeg_stored = [at |-> at, bytes |-> b]
    /\ teeg = NoTeeg
    /\ cursor \in CursorSet
    /\ ResolverIdle
    /\ DecoderIdle
    /\ ProjIdle

TeegNext ==
    \/ \E fmt \in DataFormats : Call(fmt)
    \/ ReadNSamples
    \/ ReadNChannels
    \/ SelectNBytes
    \/ Search
    \/ Finish
    \/ \E teeg_offset \in TeegOffsets : ReadTeeg(teeg_offset)

TeegSpec == TeegInit /\ [][TeegNext]_vars

\* ------------------------------------------- claims on the event decoder
\* The record size and the field widths the record layouts give a type
RecordSize(event_type) == IF event_type = 1 THEN 8 ELSE 19
LayoutWidths(event_type) ==
    IF event_type = 1 THEN <<2, 1, 1, 4>>
    ELSE <<2, 1, 1, 4, 2, 2, 4, 1, 1, 1>>

\* next() has been called on the generator of g at least once
Started(g) == g.state \in {"suspended", "exhausted", "failed"}

\* The generator of g has ended, by exhaustion or by an exception
Ended(g) == g.state \in {"exhausted", "failed"}

\* The i-th chunk of the given size of the buffer
NthChunk(i, size) == SubSeq(buffer, (i - 1) * size + 1, i * size)

\* The little-endian two's complement bytes of the number n, width of them
LittleEndianBytes(n, width) == [j \in 1..width |-> (n \div (256 ^ (j - 1))) % 256]

\* The bytes a record's values stand for, field after field
RECURSIVE Reencode(_, _)
Reencode(values, widths) ==
    IF values = <<>> \/ widths = <<>> THEN <<>>
    ELSE LittleEndianBytes(Head(values)[2], Head(widths))
         \o Reencode(Tail(values), Tail(widths))

\* C12: for an event type outside {1, 2, 3}, _get_event_parser fails with an
\* error: no parser is returned for it and no record is ever yielded.
C12_UnknownTypeRejected ==
    \A s \in Parsers :
        (gen[s].state # "none" /\ gen[s].event_type \notin {1, 2, 3}) =>
            /\ gen[s].state = "rejected"
            /\ gen[s].exc # "none"
            /\ gen[s].yielded = <<>>

\* Both an event type below the known ones and one above have been refused
C12_Witness ==
    \E s, t \in Parsers :
        /\ gen[s].state = "rejected" /\ gen[s].event_type = 0
        /\ gen[t].state = "rejected" /\ gen[t].event_type = 4
        /\ gen[s].exc = "ValueError" /\ gen[t].exc = "ValueError"

\* C13: for a valid event type and a buffer of k whole records, the decoder
\* never fails, yields the records in buffer order, the i-th one holding
\* exactly the bytes of the i-th chunk, and has yielded exactly k records
\* when it is exhausted (none for an empty buffer).
C13_OneRecordPerChunk ==
    \A s \in Parsers :
        LET g == gen[s]
            size == RecordSize(g.event_type)
        IN  (g.event_type \in {1, 2, 3} /\ Len(buffer) % size = 0) =>
                /\ g.state # "failed"
                /\ Len(g.yielded) <= Len(buffer) \div size
                /\ g.state = "exhausted" =>
                       Len(g.yielded) = Len(buffer) \div size
                /\ \A i \in 1..Len(g.yielded) :
                       /\ Len(g.yielded[i].values)
                              = Len(LayoutWidths(g.event_type))
                       /\ Reencode(g.yielded[i].values,
                                   LayoutWidths(g.event_type))
                              = NthChunk(i, size)

\* A type-2 decoder has run to its end over a buffer of two records
C13_Witness ==
    \E s \in Parsers :
        /\ gen[s].event_type = 2
        /\ gen[s].state = "exhausted"
        /\ Len(buffer) = 38
        /\ Len(gen[s].yielded) = 2

\* C14: when the buffer is not a whole number of records of the selected
\* type, the decoder yields no record at all, the leading whole ones
\* included, and its first step fails with an error.
C14_PartialBufferFails ==
    \A s \in Parsers :
        LET g == gen[s]
        IN  (g.event_type \in {1, 2, 3}
                /\ Len(buffer) % RecordSize(g.event_type) # 0) =>
                /\ g.yielded = <<>>
                /\ Started(g) => g.state = "failed" /\ g.exc # "none"

\* A type-1 decoder has failed on two whole records followed by four bytes
C14_Witness ==
    \E s \in Parsers :
        /\ gen[s].event_type = 1
        /\ Len(buffer) = 20
        /\ gen[s].state = "failed"
        /\ gen[s].exc = "struct.error"

\* The ten fields of the records of type 2 and of type 3
Type2Fields ==
    <<"StimType", "KeyBoard", "KeyPad_Accept", "Offset", "Type", "Code",
      "Latency", "EpochEvent", "Accept2", "Accuracy">>

\* C17: over one buffer, a type-2 and a type-3 decoder take 19 bytes per
\* record, agree on every field of corresponding records, carry the tags
\* CNTEventType2 and CNTEventType3, and end the same way (same number of
\* records, failure on the same buffers).
C17_Type2Type3Identical ==
    \A s, t \in Parsers :
        LET g2 == gen[s]
            g3 == gen[t]
        IN  (g2.event_type = 2 /\ g3.event_type = 3) =>
                /\ g2.pos = 19 * Len(g2.yielded)
                /\ g3.pos = 19 * Len(g3.yielded)
                /\ g2.event_maker = "CNTEventType2"
                /\ g3.event_maker = "CNTEventType3"
                /\ FieldNames(g2.event_maker) = Type2Fields
                /\ FieldNames(g3.event_maker) = Type2Fields
                /\ \A i \in 1..Len(g2.yielded) :
                       /\ g2.yielded[i].maker = "CNTEventType2"
                       /\ Len(g2.yielded[i].values) = 10
                /\ \A i \in 1..Len(g3.yielded) :
                       g3.yielded[i].maker = "CNTEventType3"
                /\ \A i \in 1..Len(g2.yielded) :
                       i <= Len(g3.yielded) =>
                           g2.yielded[i].values = g3.yielded[i].values
                /\ (Ended(g2) /\ Ended(g3)) =>
                       /\ g2.state = g3.state
                       /\ g2.exc = g3.exc
                       /\ Len(g2.yielded) = Len(g3.yielded)

\* A type-2 and a type-3 decoder have both run to the end of two records
C17_Witness ==
    \E s, t \in Parsers :
        /\ gen[s].event_type = 2 /\ gen[t].event_type = 3
        /\ gen[s].state = "exhausted" /\ gen[t].state = "exhausted"
        /\ Len(gen[s].yielded) = 2 /\ Len(gen[t].yielded) = 2

\* C18: every record of the type-1 decoder holds, for its 8-byte chunk b,
\* StimType the unsigned 16-bit integer of b[0..1], KeyBoard the unsigned
\* integer b[2], KeyPad_Accept the signed 8-bit integer of b[3], and Offset
\* the signed 32-bit integer of b[4..7], all little-endian.
C18_Type1FieldsDecoded ==
    \A s \in Parsers :
        gen[s].event_type = 1 =>
            \A i \in 1..Len(gen[s].yielded) :
                LET b == NthChunk(i, 8)
                    v == gen[s].yielded[i].values
                IN  /\ v[1] = <<"int", b[1] + 256 * b[2]>>
                    /\ v[2] = <<"int", b[3]>>
                    /\ v[3] = <<"int", IF b[4] >= 128 THEN b[4] - 256 ELSE b[4]>>
                    /\ v[4][1] = "int"
                    /\ FromInt(v[4][2]) = SignedLittleEndian32(SubSeq(b, 5, 8))

\* -------------------------------------------- claims on the TEEG reader
\* C15: when _read_teeg returns or fails, the cursor of the file is where
\* it was before the call, whatever that position and whatever teeg_offset.
C15_TeegCursorRestored == teeg.outcome # "none" => teeg.after = teeg.origin

\* -------------------------------- claims on calls sharing a file handle
\* What a call with the current hint gives on the current file bytes, from
\* the header fields, the file length and the hint alone
ExpectedOutcome ==
    LET t == FullTable(0)
        none == [outcome |-> "raised", ret |-> NoRet, warnings |-> 0]
    IN  IF ~HintValid \/ t = <<>> THEN none
        ELSE LET p == t[FirstMinimum(t)]
             IN  [outcome |-> "returned",
                  ret |-> [n_channels |-> HdrNChannels,
                           n_samples |-> HdrNSamples,
                           event_table_pos |-> Candidate(p[1]),
                           n_bytes |-> p[2]],
                  warnings |-> IF PairDistance(p) = BigZero THEN 0 ELSE 1]

\* The exception of a call on the current file bytes with the current hint
ExpectedException ==
    IF ~HintValid THEN "Exception"
    ELSE IF FullTable(0) = <<>> THEN "IndexError"
    ELSE "none"

\* C21: the outcome of every completed call (returned tuple, warning or not,
\* or the failure) is the one the file bytes and the hint determine, whatever
\* the cursor on entry and whatever calls of the resolver or of _read_teeg
\* came before on the handle; and no step changes the file bytes or length.
C21_OutcomeDependsOnBytesAndHint ==
    /\ []((Completed /\ HeaderComplete) =>
            /\ [outcome |-> outcome, ret |-> ret, warnings |-> warnings]
                   = ExpectedOutcome
            /\ exc = ExpectedException)
    /\ [][fsize' = fsize /\ hdr' = hdr /\ teeg_stored' = teeg_stored]_vars

\* A second call on the handle has returned with the warning, entered at the
\* position an earlier _read_teeg left the cursor at
C21_Witness ==
    /\ Returned
    /\ calls = 2
    /\ warnings = 1
    /\ teeg.outcome = "returned"
    /\ fid_origin = teeg.after
    /\ fid_origin \notin CursorSet

\* C22: a call that returns has sought to 864, 370, 886 and the end of the
\* file and then back to where the cursor was at its entry; so a call that
\* follows a returning call is entered at the position the returning call was
\* entered at, and after any sequence of returning calls the cursor is where
\* it was before the first of them.
C22_CursorKeptOverReturningCalls ==
    /\ [](Returned =>
            /\ cursor = fid_origin
            /\ seeks = <<FromInt(864), FromInt(370), FromInt(886), fsize,
                         fid_origin>>)
    /\ [][(pc = "idle" /\ pc' # "idle") =>
            /\ fid_origin' = cursor
            /\ outcome = "returned" => fid_origin' = fid_origin]_vars

\* The second of two returning calls has returned, the cursor at 1000 as
\* before the first, on a file of more than 4 GiB
C22_Witness ==
    /\ Returned
    /\ calls = 2
    /\ cursor = FromInt(1000)
    /\ fid_origin = FromInt(1000)
    /\ BigLt(Pow32, fsize)
    /\ data_format = "int32"

\* ------------------------------------- claims on the candidate enumeration
\* The candidates enumerated for this file: the generator run to its end on
\* the stored offset and the file length
Enumerated == possible_event_table_pos(HdrDeclared, fsize)

\* floor((file length - stored offset) / 2^32) + 1, or 0 when the stored
\* offset is beyond the file length
CandidateCount ==
    IF BigLeq(HdrDeclared, fsize)
    THEN BigSub(fsize, HdrDeclared)[1] \div 4096 + 1
    ELSE 0

\* C23: for every file with a whole header the enumeration ends and yields
\* exactly stored + k * 2^32 for k = 0, 1, 2, ... while that is <= the file
\* length, in strictly increasing order, a candidate equal to the file length
\* included; their number is floor((length - stored) / 2^32) + 1, or 0 when
\* the stored offset is beyond the file length.
C23_CandidatesEnumerated ==
    HeaderComplete =>
        /\ Len(Enumerated) = CandidateCount
        /\ \A i \in 1..Len(Enumerated) :
               /\ Enumerated[i] = BigAdd(HdrDeclared, BigMulNat(i - 1, Pow32))
               /\ BigLeq(Enumerated[i], fsize)
               /\ \A j \in 1..(i - 1) : BigLt(Enumerated[j], Enumerated[i])
        /\ BigLt(fsize, BigAdd(HdrDeclared, BigMulNat(Len(Enumerated), Pow32)))
        /\ \A k \in 0..(fsize[1] \div 4096) :
               BigAdd(HdrDeclared, BigMulNat(k, Pow32)) = fsize =>
                   /\ Len(Enumerated) = k + 1
                   /\ Enumerated[k + 1] = fsize

\* A call has searched a file of three candidates, the last of them equal to
\* the file length, and returned the last one
C23_Witness ==
    /\ Returned
    /\ Len(Enumerated) = 3
    /\ Enumerated[3] = fsize
    /\ ret.event_table_pos = fsize

\* ------------------------------------------ claims on the TEEG descriptor
\* The 9 bytes of the file from the offset of the last _read_teeg call
TeegChunk == [i \in 1..9 |-> ByteAt(BigAdd(teeg.teeg_offset, FromInt(i - 1)))]

\* C24: a returning _read_teeg(f, teeg_offset) has read the 9 bytes from
\* teeg_offset (the cursor ends 9 bytes past it) and returns event_type the
\* unsigned first byte, total_length the signed little-endian 32-bit value of
\* the next four bytes and offset that of the last four, whatever the cursor
\* was before the call; it returns whenever the file holds those 9 bytes.
C24_TeegDecoded ==
    /\ teeg.outcome = "returned" =>
           /\ teeg.after = BigAdd(teeg.teeg_offset, FromInt(9))
           /\ BigLeq(teeg.after, fsize)
           /\ teeg.value.event_type = TeegChunk[1]
           /\ FromInt(teeg.value.total_length)
                  = SignedLittleEndian32(SubSeq(TeegChunk, 2, 5))
           /\ FromInt(teeg.value.offset)
                  = SignedLittleEndian32(SubSeq(TeegChunk, 6, 9))
    /\ teeg.outcome = "raised" =>
           \/ BigLt(teeg.teeg_offset, BigZero)
           \/ BigLt(fsize, BigAdd(teeg.teeg_offset, FromInt(9)))

\* A descriptor with negative length and offset fields has been read from a
\* cursor position that is not the start of the file
C24_Witness ==
    /\ teeg.outcome = "returned"
    /\ teeg.teeg_offset = teeg_stored.at
    /\ teeg.value.event_type = 200
    /\ teeg.value.total_length = -1
    /\ teeg.value.offset < 0
    /\ teeg.origin # BigZero

\* ------------------------------------------- claims on the width chosen
\* C25: for every file of at least 890 bytes and every valid hint the call
\* returns a tuple, also when the stored offset is beyond the file length.
\* The code fails there: no candidate is enumerated, sol_table stays empty
\* and sorted(sol_table)[0] raises IndexError (line 142).
C25_TotalOnWellFormedInput ==
    (Completed /\ HeaderComplete /\ HintValid) => outcome = "returned"

\* |expected offset of width w - candidate k|
DistanceAt(w, k) == BigAbs(BigSub(Analytic(w), Candidate(k)))

\* C26: under 'auto', on a header with n_channels = 0 or n_samples = 0 the
\* expected offset is 900 + 75 * n_channels for both widths, every candidate
\* is as far from one as from the other, and a returning call gives
\* n_bytes = 2; and whenever a call under 'auto' returns n_bytes = 4, the
\* width-4 distance of the returned candidate is strictly below the width-2
\* distance of that candidate and of every earlier one.
C26_AutoPrefersWidth2 ==
    (Returned /\ data_format = "auto") =>
        /\ (HdrNChannels = 0 \/ HdrNSamples = 0) =>
               /\ Analytic(2) = FromInt(900 + 75 * HdrNChannels)
               /\ Analytic(4) = FromInt(900 + 75 * HdrNChannels)
               /\ \A k \in 0..(fsize[1] \div 4096) :
                      DistanceAt(2, k) = DistanceAt(4, k)
               /\ ret.n_bytes = 2
        /\ ret.n_bytes = 4 =>
               \A k \in 0..(fsize[1] \div 4096) :
                   BigLeq(Candidate(k), ret.event_table_pos) =>
                       BigLt(ReturnedDistance, DistanceAt(2, k))

\* A call under 'auto' returned width 2 for a header of 32 channels and no
\* samples, from a file with more than one candidate
C26_Witness ==
    /\ Returned
    /\ data_format = "auto"
    /\ HdrNChannels = 32
    /\ HdrNSamples = 0
    /\ ret.n_bytes = 2
    /\ Len(Enumerated) >= 2

\* ------------------------------------ claims on the order of the failures
\* C27: an unknown event type is refused by _get_event_parser itself, so no
\* parser exists to hand a buffer to; a parser of a known type is returned
\* without an error, the call parser(buffer) gives the sequence without an
\* error and without a byte of the buffer read, whatever the buffer; and a
\* decoder fails only at the request of its first element.
C27_EagerTypeLazyBuffer ==
    /\ [](\A s \in Parsers :
            /\ (gen[s].state # "none" /\ gen[s].event_type \notin {1, 2, 3})
                   => gen[s].state = "rejected"
            /\ gen[s].state \in {"parser", "created"} =>
                   /\ gen[s].exc = "none"
                   /\ gen[s].pos = 0
                   /\ gen[s].yielded = <<>>)
    /\ [][\A s \in Parsers :
            /\ (gen'[s].state = "rejected" /\ gen[s].state # "rejected")
                   => gen[s].state = "none"
            /\ (gen[s].state = "parser" /\ gen'[s] # gen[s])
                   => gen'[s] = [gen[s] EXCEPT !.state = "created"]
            /\ (gen'[s].state = "failed" /\ gen[s].state # "failed")
                   => gen[s].state = "created"]_vars

\* Over a buffer of two records and four bytes, one type-1 decoder has been
\* created and not yet asked for an element, another has failed at its first
\* element
C27_Witness ==
    \E s, t \in Parsers :
        /\ Len(buffer) = 20
        /\ gen[s].event_type = 1 /\ gen[s].state = "created"
        /\ gen[s].exc = "none"
        /\ gen[t].event_type = 1 /\ gen[t].state = "failed"
        /\ gen[t].exc = "struct.error"

\* ------------------------------------------------- the SSP functions
\* The dicts a caller passes for reject and for flat
UserRejects ==
    {[k \in {"grad", "mag", "eeg", "eog"} |->
         IF k = "grad" THEN "4000e-13"
         ELSE IF k = "mag" THEN "4e-12"
         ELSE IF k = "eeg" THEN "150e-6"
         ELSE "250e-6"],
     [k \in {"eeg"} |-> "100e-6"]}

UserFlats == {[k \in {"grad", "eeg"} |-> IF k = "grad" THEN "1e-13" ELSE "1e-6"]}

\* The channel types of which a recording has a good channel
PresentSets ==
    {{"grad", "mag", "eeg", "eog"}, {"mag", "eeg", "eog"}, {"eeg", "eog"},
     {"eeg"}}

\* What a call passes for reject: nothing, None, or the caller's dict
RejectArgs == {"omitted", "None", "user_reject"}

\* What a call passes for flat: nothing or None, or the caller's dict
FlatArgs == {"None", "user_flat"}

ProjInit ==
    /\ fsize = FromInt(890)
    /\ hdr = Header(0, 0, FromInt(900))
    /\ cursor = BigZero
    /\ ResolverIdle
    /\ TeegIdle
    /\ DecoderIdle
    /\ \E user_reject \in UserRejects, user_flat \in UserFlats :
         heap = HeapAtImport(user_reject, user_flat)
    /\ proj = NoProj

\* _compute_exg_proj, lines 42-151, as far as reject and flat go: reject and
\* flat name dict objects (or None); without events the function returns at
\* line 86; otherwise keys are deleted from the objects themselves and the
\* objects are passed to Epochs (lines 130-131)
_compute_exg_proj(mode, reject, flat, present, n_events) ==
    /\ LET entry == [NoProj EXCEPT
                        !.mode = mode, !.reject = reject, !.flat = flat,
                        !.reject_at_entry =
                            IF reject = "None" THEN NoDict ELSE heap[reject],
                        !.flat_at_entry =
                            IF flat = "None" THEN NoDict ELSE heap[flat]]
           h1 == IF reject # "None"
                 THEN [heap EXCEPT ![reject] = DropAbsent(@, present, 1)]
                 ELSE heap
           h2 == IF flat # "None"
                 THEN [h1 EXCEPT ![flat] = DropAbsent(@, present, 1)]
                 ELSE h1
       IN  IF n_events < 1
           THEN /\ proj' = entry
                /\ UNCHANGED heap
           ELSE /\ heap' = h2
                /\ proj' = [entry EXCEPT
                               !.epochs = TRUE,
                               !.epochs_reject =
                                   IF reject = "None" THEN NoDict ELSE h2[reject],
                               !.epochs_flat =
                                   IF flat = "None" THEN NoDict ELSE h2[flat]]
    /\ UNCHANGED <<resolver_vars, teeg_vars, decoder_vars>>

\* compute_proj_ecg, lines 156-263: an omitted reject is the default object
\* of this function
compute_proj_ecg(reject_arg, flat_arg, present, n_events) ==
    _compute_exg_proj("ECG",
                     IF reject_arg = "omitted" THEN "ecg_default" ELSE reject_arg,
                     flat_arg, present, n_events)

\* compute_proj_eog, lines 267-369: an omitted reject is the default object
\* of this function
compute_proj_eog(reject_arg, flat_arg, present, n_events) ==
    _compute_exg_proj("EOG",
                     IF reject_arg = "omitted" THEN "eog_default" ELSE reject_arg,
                     flat_arg, present, n_events)

ProjNext ==
    \/ \E reject_arg \in RejectArgs, flat_arg \in FlatArgs,
          present \in PresentSets, n_events \in {0, 1} :
         compute_proj_ecg(reject_arg, flat_arg, present, n_events)
    \/ \E reject_arg \in RejectArgs, flat_arg \in FlatArgs,
          present \in PresentSets, n_events \in {0, 1} :
         compute_proj_eog(reject_arg, flat_arg, present, n_events)

ProjSpec == ProjInit /\ [][ProjNext]_vars

\* -------------------------------------------- claims on the SSP functions
\* The thresholds the signatures document for an omitted reject
DocumentedReject(mode) ==
    [k \in {"grad", "mag", "eeg", "eog"} |->
        IF k = "grad" THEN "2000e-13"
        ELSE IF k = "mag" THEN "3000e-15"
        ELSE IF k = "eeg" THEN (IF mode = "ECG" THEN "50e-6" ELSE "500e-6")
        ELSE (IF mode = "ECG" THEN "250e-6" ELSE "np.inf")]

\* C28: whatever calls came before, a call that passes no reject works from
\* the documented default thresholds (keys grad, mag, eeg, eog), and after a
\* call the dict objects it was given for reject and flat hold what they
\* held at its entry, no key removed. The code deletes the keys of absent
\* channel types from the objects themselves, the shared defaults included.
C28_CallsIndependent ==
    proj.mode # "none" =>
        /\ proj.reject \in {"ecg_default", "eog_default"} =>
               proj.reject_at_entry = DocumentedReject(proj.mode)
        /\ proj.reject = "user_reject" =>
               heap["user_reject"] = proj.reject_at_entry
        /\ proj.flat = "user_flat" =>
               heap["user_flat"] = proj.flat_at_entry
        /\ proj.reject # "None" =>
               DOMAIN proj.reject_at_entry \subseteq DOMAIN heap[proj.reject]

====
